---- MODULE Spec2Model ----
(***************************************************************************)
(* A model of faust/actors.py: one Actor, the ActorService that owns its   *)
(* replicas, the asyncio tasks that run the replicas, and the request /    *)
(* reply helpers of the Actor.                                             *)
(*                                                                         *)
(* Scheduling is asyncio's: one thread, a task runs from one suspension    *)
(* point to the next without interruption, so every action below is the    *)
(* code between two awaits.  Suspension points of a replica are the pull   *)
(* from the stream, the body of a sink and the body of the error hook.     *)
(***************************************************************************)
EXTENDS Integers, Sequences, FiniteSets, TLC

\* ---------------------------------------------------------------- bounds
MaxConcurrency == 2
MaxSinks == 2
NMsgs == 2
MaxStarts == 2
MaxInvokes == 1
MaxCalls == 2
MaxChain == 2

\* ---------------------------------------------------------------- state
VARIABLES
    concurrency,   \* Actor.concurrency
    on_error,      \* Actor._on_error is not None
    fun,           \* what Actor.fun returns: "Awaitable" or "AsyncIterable"
    sinks,         \* Actor._sinks, a sink is named by its registration number
    cache,         \* the cached_property slot of Actor.source, 0 when empty
    cursor,        \* cursor[s]: how many messages source s has handed out
    instances,     \* ActorService.instances
    invoked,       \* instances made by calling the Actor directly
    tasks,         \* every asyncio.Task made by _start_task
    service,       \* the ActorService: its state and the loop it is in
    starts,        \* how many times the service was started
    published,     \* what the publish primitive has accepted, in order
    uuids,         \* how many ids uuid4 has handed out
    last,          \* the latest send/cast/ask/reply: arguments and outcome
    payload        \* the latest dumps/loads of the codecs: arguments, outcome

vars == <<concurrency, on_error, fun, sinks, cache, cursor,
          instances, invoked, tasks, service, starts, published, uuids,
          last, payload>>

actorVars == <<concurrency, on_error, fun>>

rpcVars == <<published, uuids, last>>

codecVars == <<payload>>

lifeVars == <<sinks, cache, cursor, instances, invoked, tasks, service,
              starts>>

None == 0
ActorId == "actor"
Msgs == 1 .. NMsgs

NoExc == [type |-> "None", sink |-> 0, value |-> 0]
HandlerError(m) == [type |-> "HandlerError", sink |-> 0, value |-> m]
SinkError(i, v) == [type |-> "SinkError", sink |-> i, value |-> v]
HookError == [type |-> "HookError", sink |-> 0, value |-> 0]
CancelledError == [type |-> "CancelledError", sink |-> 0, value |-> 0]

Pending == {"pull", "sink", "hook"}
IsDone(task) == task.pc \notin Pending

\* ------------------------------------------------------- Actor.source
\* cached_property: the first read calls aiter(self.topic) and stores the
\* result, every later read returns the stored object.  The result is
\* <<the source, the new cache slot, the new cursors>>.
source_uncached(c, cur) == <<Len(cur) + 1, Len(cur) + 1, Append(cur, 0)>>

source(c, cur) ==
    IF c = None
    THEN <<Len(cur) + 1, Len(cur) + 1, Append(cur, 0)>>
    ELSE <<c, c, cur>>

\* The pull primitive of a Source: the next message goes to the one caller
\* that asked for it, and the Source moves on.
Source_next(cur, src) ==
    [message |-> cur[src] + 1, cursor |-> [cur EXCEPT ![src] = @ + 1]]

Source_exhausted(cur, src) == cur[src] = NMsgs

\* Actor.stream: a new stream over the shared source.
stream(src) == [source |-> src]

\* Actor.__call__: open the stream, call the function, wrap the result.
\* The instance has no task yet.
call(src) ==
    [agent |-> ActorId,
     stream |-> stream(src),
     variant |-> IF fun = "Awaitable" THEN "AwaitableActor"
                 ELSE "AsyncIterableActor",
     actor_task |-> None,
     index |-> -1,
     state |-> "init",
     futures |-> {}]

\* asyncio.Task(self._execute_task(coro)): scheduled, nothing has run yet.
NewTask(inst) ==
    [pc |-> "pull",
     stream |-> inst.stream,
     variant |-> inst.variant,
     must_cancel |-> FALSE,
     value |-> 0,
     sink |-> 0,
     exc |-> NoExc,
     result |-> NoExc,
     pulled |-> <<>>,
     calls |-> <<>>,
     hooks |-> <<>>,
     hooked |-> "no"]

\* ------------------------------------------------- values and envelopes
\* A value is a structured record (a ModelT, whose _options carry the
\* namespace) or a plain value, which has no _options.
Values ==
    {[type |-> "value", model |-> TRUE, namespace |-> "ns", data |-> 1],
     [type |-> "value", model |-> FALSE, namespace |-> "", data |-> 2]}

NoNamespace == "<None>"
ReplyTos == {"R1", "R2"}
Partitions == {None, 1}
Key == "k"

\* A correlation id argument: None, a string, or the text of a uuid4.
NoneId == [kind |-> "None", s |-> "", n |-> 0]
Str(x) == [kind |-> "str", s |-> x, n |-> 0]
uuid4(n) == [kind |-> "uuid", s |-> "", n |-> n + 1]
CorrelationIds == {NoneId, Str(""), Str("C")}

\* Python's truth value of an optional string.
Truthy(c) == c.kind = "uuid" \/ (c.kind = "str" /\ c.s # "")

ReqRepRequest(value, namespace, reply_to, correlation_id) ==
    [type |-> "ReqRepRequest", value |-> value, namespace |-> namespace,
     reply_to |-> reply_to, correlation_id |-> correlation_id,
     isareq |-> TRUE]

ReqRepResponse(value, namespace, correlation_id) ==
    [type |-> "ReqRepResponse", value |-> value, namespace |-> namespace,
     correlation_id |-> correlation_id]

ReplyPromise(actor, req) == [actor |-> actor, req |-> req]

\* The requests reply is tried with.
Requests ==
    {ReqRepRequest(v, NoNamespace, r, c) :
        v \in {CHOOSE x \in Values : ~x.model}, r \in ReplyTos,
        c \in {Str("C"), uuid4(0)}}

NoCall ==
    [op |-> "none", n |-> 0, value |-> NoneId, req |-> NoneId, reply_to |-> "",
     correlation_id |-> NoneId, partition |-> None, wait |-> TRUE,
     before |-> 0, attempts |-> 0, raised |-> "", result |-> NoneId]

\* ------------------------------------------------ serializers/codecs.py
\* What is encoded: a Python object, str or bytes (base), with the
\* encodings applied to it so far, innermost first.  Anything with an
\* encoding applied is bytes.
Data(kind, v) == [base |-> [kind |-> kind, v |-> v], layers |-> <<>>]

\* An exception raised by an encoder or decoder; it leaves dumps / loads.
Error == Data("error", 0)

Objects == {Data("dict", 1), Data("str", 1), Data("bytes", 1)}

IsBytes(d) == d.layers # <<>> \/ d.base.kind = "bytes"

\* want_bytes: a str is encoded to bytes, anything else is left alone.
want_bytes(d) ==
    IF d.layers = <<>> /\ d.base.kind = "str"
    THEN Data("bytes", d.base.v)
    ELSE d

Wrap(d, layer) == [d EXCEPT !.layers = Append(@, layer)]

\* A decoder reads the format its encoder wrote and raises on another one.
Unwrap(d, layer) ==
    IF d.layers # <<>> /\ d.layers[Len(d.layers)] = layer
    THEN [d EXCEPT !.layers = SubSeq(@, 1, Len(@) - 1)]
    ELSE Error

\* json._dumps: want_bytes(_json.dumps(s)); bytes are not JSON serializable.
json_dumps(d) == IF d = Error \/ IsBytes(d) THEN Error ELSE Wrap(d, "json")

\* json._loads: _json.loads(want_str(s))
json_loads(d) == Unwrap(d, "json")

\* raw_pickle._dumps: _pickle.dumps(obj), of any object.
raw_pickle_dumps(d) == IF d = Error THEN Error ELSE Wrap(d, "pickle")

\* raw_pickle._loads: _pickle.loads(s)
raw_pickle_loads(d) == Unwrap(d, "pickle")

\* binary._dumps: b64encode(want_bytes(s)); b64encode takes bytes only.
binary_dumps(d) ==
    IF d = Error \/ ~IsBytes(want_bytes(d))
    THEN Error
    ELSE Wrap(want_bytes(d), "base64")

\* binary._loads: b64decode(s)
binary_loads(d) == Unwrap(d, "base64")

\* Codec.__init__ of a subclass: children; nodes is (self,) + children.
Codec(type, children) == [type |-> type, children |-> children]

nodes(c) == <<c>> \o c.children

\* e._dumps(obj) / d._loads(s) of a node: the method of its class; the
\* children of the node take no part in it.
node_dumps(n, d) ==
    CASE n.type = "json" -> json_dumps(d)
      [] n.type = "raw_pickle" -> raw_pickle_dumps(d)
      [] n.type = "binary" -> binary_dumps(d)

node_loads(n, d) ==
    CASE n.type = "json" -> json_loads(d)
      [] n.type = "raw_pickle" -> raw_pickle_loads(d)
      [] n.type = "binary" -> binary_loads(d)

RECURSIVE reduce_dumps(_, _)
reduce_dumps(ns, d) ==
    IF ns = <<>> THEN d
    ELSE reduce_dumps(Tail(ns), node_dumps(Head(ns), d))

RECURSIVE reduce_loads(_, _)
reduce_loads(ns, d) ==
    IF ns = <<>> THEN d
    ELSE reduce_loads(Tail(ns), node_loads(Head(ns), d))

reversed(seq) == [k \in 1 .. Len(seq) |-> seq[Len(seq) + 1 - k]]

\* Codec.dumps: reduce(lambda obj, e: e._dumps(obj), self.nodes, obj)
Codec_dumps(c, d) == reduce_dumps(nodes(c), d)

Codec_loads_forward(c, d) == reduce_loads(nodes(c), d)

\* Codec.loads: reduce(lambda s, d: d._loads(s), reversed(self.nodes), s)
Codec_loads(c, d) == reduce_loads(reversed(nodes(c)), d)

\* Codec.clone: type(self)(children=self.children + children)
clone(c, children) == Codec(c.type, c.children \o children)

\* Codec.__or__: self.clone(other)
Codec_or(c, other) == clone(c, <<other>>)

json == Codec("json", <<>>)
raw_pickle == Codec("raw_pickle", <<>>)
binary == Codec("binary", <<>>)

\* pickle(): raw_pickle() | binary()
pickle == Codec_or(raw_pickle, binary)

\* The registry.
codecs == ("json" :> json) @@ ("pickle" :> pickle) @@ ("binary" :> binary)

\* A codec name: the names between the '|' of the string, so one name for
\* a registered codec, several for a chain, none for the empty string.
Name(parts) == [name |-> parts]

IsName(a) == "name" \in DOMAIN a

\* No codec: None, or the empty string.
NoCodec == Name(<<>>)

\* _reduce_node: codecs.get(a, a) | codecs[b], where a is the first name
\* of the chain or the codec reduced so far.
reduce_node(a, b) ==
    Codec_or(IF IsName(a) THEN codecs[a.name[1]] ELSE a, codecs[b])

RECURSIVE reduce_nodes(_, _)
reduce_nodes(a, bs) ==
    IF bs = <<>> THEN a
    ELSE reduce_nodes(reduce_node(a, Head(bs)), Tail(bs))

\* get_codec
get_codec(name_or_codec) ==
    IF IsName(name_or_codec)
    THEN IF Len(name_or_codec.name) > 1
         THEN reduce_nodes(Name(<<name_or_codec.name[1]>>),
                           Tail(name_or_codec.name))
         ELSE codecs[name_or_codec.name[1]]
    ELSE name_or_codec

\* dumps(codec, obj): get_codec(codec).dumps(obj) if codec else obj
dumps(codec, obj) ==
    IF codec = NoCodec THEN obj ELSE Codec_dumps(get_codec(codec), obj)

\* loads(codec, s): get_codec(codec).loads(s) if codec else s
loads(codec, s) ==
    IF codec = NoCodec THEN s ELSE Codec_loads(get_codec(codec), s)

\* The codec arguments dumps and loads are called with: no codec, every
\* name of up to MaxChain registered names, and a codec object.
CodecArgs ==
    {NoCodec, Codec_or(binary, json)}
    \cup UNION {{Name(parts) : parts \in [1 .. k -> DOMAIN codecs]} :
                   k \in 1 .. MaxChain}

NoPayload ==
    [op |-> "none", codec |-> NoCodec, obj |-> Error, encoded |-> Error,
     decoder |-> NoCodec, decoded |-> Error]

\* ------------------------------------------------------------- Init
Init ==
    /\ concurrency \in 1 .. MaxConcurrency
    /\ on_error \in BOOLEAN
    /\ fun \in {"Awaitable", "AsyncIterable"}
    /\ sinks = <<>>
    /\ cache = None
    /\ cursor = <<>>
    /\ instances = <<>>
    /\ invoked = <<>>
    /\ tasks = <<>>
    /\ service = [state |-> "init", index |-> 0, phase |-> "create"]
    /\ starts = 0
    /\ published = <<>>
    /\ uuids = 0
    /\ last = NoCall
    /\ payload = NoPayload

\* --------------------------------------------------- Actor._start_task
\* res = self(); the task is made, bound to the instance together with the
\* replica index, and the instance is returned.  tid names the new task.
start_task_unbound(index, src, tid) ==
    [call(src) EXCEPT !.index = index]

start_task(index, src, tid) ==
    [call(src) EXCEPT !.actor_task = tid, !.index = index]

\* ------------------------------------------- ActorInstance.on_start/cancel
on_start_unregistered(inst) ==
    IF inst.actor_task = None
    THEN [inst EXCEPT !.state = "crashed"]
    ELSE [inst EXCEPT !.state = "running"]

\* on_start: assert self.actor_task; self.add_future(self.actor_task)
on_start(inst) ==
    IF inst.actor_task = None
    THEN [inst EXCEPT !.state = "crashed"]
    ELSE [inst EXCEPT !.state = "running",
                      !.futures = @ \cup {inst.actor_task}]

\* asyncio's Task.cancel: nothing happens to a task that is done, any other
\* task gets CancelledError thrown into it at its next step.
Task_cancel(task) ==
    IF IsDone(task) THEN task ELSE [task EXCEPT !.must_cancel = TRUE]

cancel_all(inst, ts) == [u \in 1 .. Len(ts) |-> Task_cancel(ts[u])]

cancel_never(inst, ts) == ts

\* cancel: if self.actor_task: self.actor_task.cancel()
cancel(inst, ts) ==
    IF inst.actor_task # None
    THEN [ts EXCEPT ![inst.actor_task] = Task_cancel(@)]
    ELSE ts

\* The Service contract around on_stop: the instance is Stopping from the
\* moment stop is called and Stopped once its task handle has resolved.
Service_stop(inst) == [inst EXCEPT !.state = "stopping"]

Service_stopped(inst) == [inst EXCEPT !.state = "stopped"]

Resolved(inst, ts) == inst.actor_task = None \/ IsDone(ts[inst.actor_task])

\* --------------------------------------------- Actor._delegate_to_sinks
\* for sink in self._sinks: await maybe_async(sink(value)).  i is the sink
\* that has just returned (0 on entry); the list is read again on every
\* round of the loop, as Python's list iterator does.
delegate_to_sinks_first_only(task, i) ==
    IF i = 0 /\ Len(sinks) > 0
    THEN [task EXCEPT !.pc = "sink", !.sink = 1,
                      !.calls = Append(@, <<1, task.value>>)]
    ELSE [task EXCEPT !.pc = "pull", !.sink = 0, !.value = 0]

delegate_to_sinks(task, i) ==
    IF i < Len(sinks)
    THEN [task EXCEPT !.pc = "sink", !.sink = i + 1,
                      !.calls = Append(@, <<i + 1, task.value>>)]
    ELSE [task EXCEPT !.pc = "pull", !.sink = 0, !.value = 0]

\* ------------------------------------------------------- Actor._slurp
\* async for value in it: await self._delegate_to_sinks(value)
slurp(task, value) ==
    delegate_to_sinks(
        [task EXCEPT !.value = value,
                     !.pulled = Append(@, <<value, Len(sinks)>>)], 0)

\* -------------------------------------------------- Actor._execute_task
\* except asyncio.CancelledError: raise
execute_task_cancelled_reported(task) ==
    [task EXCEPT !.pc = "cancelled", !.result = CancelledError,
                 !.hooks = IF on_error
                           THEN Append(@, [actor |-> ActorId,
                                           exc |-> CancelledError])
                           ELSE @]

execute_task_cancelled(task) ==
    [task EXCEPT !.pc = "cancelled", !.result = CancelledError]

\* except Exception as exc: if self._on_error is not None:
\*     await self._on_error(self, exc)   (the hook is entered here)
execute_task_except_unreported(task, exc) ==
    [task EXCEPT !.pc = "failed", !.exc = exc, !.result = exc]

execute_task_except(task, exc) ==
    IF on_error
    THEN [task EXCEPT !.pc = "hook", !.exc = exc, !.hooked = "entered",
                      !.hooks = Append(@, [actor |-> ActorId, exc |-> exc])]
    ELSE [task EXCEPT !.pc = "failed", !.exc = exc, !.result = exc]

\* the hook returned: raise (the exception being handled)
execute_task_reraise_swallowed(task) ==
    [task EXCEPT !.pc = "done", !.hooked = "returned"]

execute_task_reraise(task) ==
    [task EXCEPT !.pc = "failed", !.result = task.exc,
                 !.hooked = "returned"]

\* the hook raised: its exception leaves the except block instead
execute_task_hook_raised(task, exc) ==
    [task EXCEPT !.pc = "failed", !.result = exc, !.hooked = "raised"]

\* await coro returned
execute_task_return(task) ==
    [task EXCEPT !.pc = "done"]

\* A sink raises: neither _delegate_to_sinks nor _slurp handles it, so it
\* leaves the task body.
sink_raised_isolated(task) ==
    delegate_to_sinks(
        [task EXCEPT !.exc = SinkError(task.sink, task.value)], task.sink)

sink_raised(task) ==
    execute_task_except(task, SinkError(task.sink, task.value))

\* ------------------------------------------------------------ actions
\* Service.start of the ActorService: on_start begins.  A stopped service
\* is the same ActorService object (Actor._service is cached), started
\* again.
ServiceStart ==
    /\ service.state \in {"init", "stopped"}
    /\ starts < MaxStarts
    /\ starts' = starts + 1
    /\ service' = [state |-> "starting", index |-> 0, phase |-> "create"]
    /\ UNCHANGED <<actorVars, codecVars, rpcVars, sinks, cache, cursor, instances,
                   invoked, tasks>>

\* on_start, one round of the loop up to the await of res.start():
\* res = await self.actor._start_task(index, self.beacon)
\* self.instances.append(res)
OnStartCreate ==
    /\ service.state = "starting"
    /\ service.phase = "create"
    /\ service.index < concurrency
    /\ LET s == source(cache, cursor)
           tid == Len(tasks) + 1
           res == start_task(service.index, s[1], tid)
       IN /\ cache' = s[2]
          /\ cursor' = s[3]
          /\ tasks' = Append(tasks, NewTask(res))
          /\ instances' = Append(instances, res)
    /\ service' = [service EXCEPT !.phase = "start"]
    /\ UNCHANGED <<actorVars, codecVars, rpcVars, sinks, invoked, starts>>

\* on_start: await res.start(), then the next round or the end of the loop.
OnStartInstance ==
    /\ service.state = "starting"
    /\ service.phase = "start"
    /\ instances' = [instances EXCEPT ![Len(instances)] = on_start(@)]
    /\ service' = IF service.index + 1 < concurrency
                  THEN [service EXCEPT !.index = @ + 1, !.phase = "create"]
                  ELSE [state |-> "running", index |-> 0, phase |-> "create"]
    /\ UNCHANGED <<actorVars, codecVars, rpcVars, sinks, cache, cursor, invoked, tasks,
                   starts>>

\* Service.stop of the ActorService: on_stop begins.  The Service contract
\* runs on_stop of a service that has started, so not in the middle of
\* on_start.
ServiceStop ==
    /\ service.state = "running"
    /\ service' = [state |-> "stopping", index |-> 1, phase |-> "stop"]
    /\ UNCHANGED <<actorVars, codecVars, rpcVars, sinks, cache, cursor, instances,
                   invoked, tasks, starts>>

\* on_stop, one round of the loop: instance.stop() runs
\* ActorInstance.on_stop and so cancel(); the instance is Stopping.
OnStopInstance ==
    /\ service.state = "stopping"
    /\ service.phase = "stop"
    /\ LET i == service.index
       IN /\ tasks' = cancel(instances[i], tasks)
          /\ instances' = [instances EXCEPT ![i] = Service_stop(@)]
    /\ service' = [service EXCEPT !.phase = "wait"]
    /\ UNCHANGED <<actorVars, codecVars, rpcVars, sinks, cache, cursor, invoked, starts>>

\* await instance.stop() returns once the task of the instance has ended;
\* then the next round or the end of the loop.
OnStopResolved ==
    /\ service.state = "stopping"
    /\ service.phase = "wait"
    /\ LET i == service.index
       IN /\ Resolved(instances[i], tasks)
          /\ instances' = [instances EXCEPT ![i] = Service_stopped(@)]
          /\ service' = IF i < Len(instances)
                        THEN [service EXCEPT !.index = i + 1,
                                             !.phase = "stop"]
                        ELSE [state |-> "stopped", index |-> 0,
                              phase |-> "create"]
    /\ UNCHANGED <<actorVars, codecVars, rpcVars, sinks, cache, cursor, invoked, tasks,
                   starts>>

\* Actor.__call__ from outside the service.
Invoke ==
    /\ Len(invoked) < MaxInvokes
    /\ LET s == source(cache, cursor)
       IN /\ cache' = s[2]
          /\ cursor' = s[3]
          /\ invoked' = Append(invoked, call(s[1]))
    /\ UNCHANGED <<actorVars, codecVars, rpcVars, sinks, instances, tasks, service,
                   starts>>

\* Actor.add_sink
add_sink ==
    /\ Len(sinks) < MaxSinks
    /\ sinks' = Append(sinks, Len(sinks) + 1)
    /\ UNCHANGED <<actorVars, codecVars, rpcVars, cache, cursor, instances, invoked, tasks,
                   service, starts>>

Runnable_failfast(t) ==
    /\ tasks[t].pc \in Pending
    /\ ~tasks[t].must_cancel
    /\ \A u \in 1 .. Len(tasks) : tasks[u].pc # "failed"

Runnable_uncancellable(t) == tasks[t].pc \in Pending

Runnable(t) == tasks[t].pc \in Pending /\ ~tasks[t].must_cancel

taskFrame == <<actorVars, codecVars, rpcVars, sinks, cache, instances, invoked, service,
               starts>>

\* The stream hands the next message to the replica that asked for it; the
\* function yields it (AsyncIterable) or consumes it (Awaitable).
Pull(t) ==
    /\ Runnable(t)
    /\ tasks[t].pc = "pull"
    /\ ~Source_exhausted(cursor, tasks[t].stream.source)
    /\ LET next == Source_next(cursor, tasks[t].stream.source)
       IN /\ cursor' = next.cursor
          /\ tasks' = [tasks EXCEPT ![t] =
                IF tasks[t].variant = "AsyncIterableActor"
                THEN slurp(@, next.message)
                ELSE [@ EXCEPT !.pulled = Append(@, <<next.message, 0>>)]]
    /\ UNCHANGED taskFrame

\* The function raises while it handles the message it was handed.
HandlerRaise(t) ==
    /\ Runnable(t)
    /\ tasks[t].pc = "pull"
    /\ ~Source_exhausted(cursor, tasks[t].stream.source)
    /\ LET next == Source_next(cursor, tasks[t].stream.source)
       IN /\ cursor' = next.cursor
          /\ tasks' = [tasks EXCEPT ![t] =
                execute_task_except(@, HandlerError(next.message))]
    /\ UNCHANGED taskFrame

\* The stream ends: the function returns and so does the task body.
Exhausted(t) ==
    /\ Runnable(t)
    /\ tasks[t].pc = "pull"
    /\ Source_exhausted(cursor, tasks[t].stream.source)
    /\ tasks' = [tasks EXCEPT ![t] = execute_task_return(@)]
    /\ UNCHANGED <<taskFrame, cursor>>

\* The sink the replica is in returns.
SinkReturn(t) ==
    /\ Runnable(t)
    /\ tasks[t].pc = "sink"
    /\ tasks' = [tasks EXCEPT ![t] = delegate_to_sinks(@, @.sink)]
    /\ UNCHANGED <<taskFrame, cursor>>

\* The sink the replica is in raises.
SinkRaise(t) ==
    /\ Runnable(t)
    /\ tasks[t].pc = "sink"
    /\ tasks' = [tasks EXCEPT ![t] = sink_raised(@)]
    /\ UNCHANGED <<taskFrame, cursor>>

\* The error hook returns.
HookReturn(t) ==
    /\ Runnable(t)
    /\ tasks[t].pc = "hook"
    /\ tasks' = [tasks EXCEPT ![t] = execute_task_reraise(@)]
    /\ UNCHANGED <<taskFrame, cursor>>

\* The error hook raises.
HookRaise(t) ==
    /\ Runnable(t)
    /\ tasks[t].pc = "hook"
    /\ tasks' = [tasks EXCEPT ![t] = execute_task_hook_raised(@, HookError)]
    /\ UNCHANGED <<taskFrame, cursor>>

\* The event loop throws CancelledError into a task that was cancelled, at
\* the await it is suspended in.
Cancelled(t) ==
    /\ tasks[t].pc \in Pending
    /\ tasks[t].must_cancel
    /\ tasks' = [tasks EXCEPT ![t] = execute_task_cancelled(@)]
    /\ UNCHANGED <<taskFrame, cursor>>

TaskIds == 1 .. Len(tasks)

Next ==
    \/ ServiceStart
    \/ OnStartCreate
    \/ OnStartInstance
    \/ ServiceStop
    \/ OnStopInstance
    \/ OnStopResolved
    \/ Invoke
    \/ add_sink
    \/ \E t \in TaskIds : Pull(t)
    \/ \E t \in TaskIds : HandlerRaise(t)
    \/ \E t \in TaskIds : Exhausted(t)
    \/ \E t \in TaskIds : SinkReturn(t)
    \/ \E t \in TaskIds : SinkRaise(t)
    \/ \E t \in TaskIds : HookReturn(t)
    \/ \E t \in TaskIds : HookRaise(t)
    \/ \E t \in TaskIds : Cancelled(t)

Spec == Init /\ [][Next]_vars

\* ------------------------------------------------ send, cast, ask, reply
\* The publish primitive of a topic (Topic.send, App.send): the message is
\* accepted, or the transport raises.
Message(dest, key, value, partition, wait) ==
    [dest |-> dest, key |-> key, value |-> value, partition |-> partition,
     wait |-> wait]

send_retry(log, key, value, partition, wait, ok) ==
    [published |-> Append(log, Message("topic", key, value, partition, wait)),
     attempts |-> IF ok THEN 1 ELSE 2,
     raised |-> "", result |-> Str("confirmation")]

\* Actor.send: return await self.topic.send(key, value, partition, ...)
\* One call of the publish primitive; what it raises is not caught.
send(log, key, value, partition, wait, ok) ==
    IF ok
    THEN [published |-> Append(log, Message("topic", key, value, partition,
                                            wait)),
          attempts |-> 1, raised |-> "", result |-> Str("confirmation")]
    ELSE [published |-> log, attempts |-> 1, raised |-> "TransportError",
          result |-> NoneId]

\* Actor.cast: await self.send(key, value, partition=partition)
cast(log, key, value, partition, ok) ==
    [send(log, key, value, partition, TRUE, ok) EXCEPT !.result = NoneId]

\* Actor.ask, the id of the request: correlation_id or str(uuid4())
ask_correlation_id_always_new(correlation_id, n) == uuid4(n)

ask_correlation_id(correlation_id, n) ==
    IF Truthy(correlation_id) THEN correlation_id ELSE uuid4(n)

\* Actor.ask, the request that is built.
ask_request(value, reply_to, correlation_id, n) ==
    ReqRepRequest(value,
                  IF value.model THEN value.namespace ELSE NoNamespace,
                  reply_to,
                  ask_correlation_id(correlation_id, n))

\* Actor.ask: await self.send(key, req, partition=partition)
\*            return ReplyPromise(self, req)
ask(log, key, value, partition, reply_to, correlation_id, n, ok) ==
    LET req == ask_request(value, reply_to, correlation_id, n)
        sent == send(log, key, req, partition, TRUE, ok)
    IN IF sent.raised = ""
       THEN [sent EXCEPT !.result = ReplyPromise(ActorId, req)]
       ELSE sent

\* Actor.reply: value._options.namespace is read while the response is
\* built, before anything is sent; a plain value has no _options.
reply(log, key, value, req, ok) ==
    IF ~value.model
    THEN [published |-> log, attempts |-> 0, raised |-> "AttributeError",
          result |-> NoneId]
    ELSE IF ok
    THEN [published |-> Append(log,
              Message(req.reply_to, key,
                      ReqRepResponse(value, value.namespace,
                                     req.correlation_id),
                      None, TRUE)),
          attempts |-> 1, raised |-> "", result |-> NoneId]
    ELSE [published |-> log, attempts |-> 1, raised |-> "TransportError",
          result |-> NoneId]

CanCall == last.n < MaxCalls

Called(op, r) ==
    [NoCall EXCEPT !.op = op, !.n = last.n + 1, !.before = Len(published),
                   !.attempts = r.attempts, !.raised = r.raised,
                   !.result = r.result]

Send ==
    /\ CanCall
    /\ \E value \in Values, partition \in Partitions, wait \in BOOLEAN,
          ok \in BOOLEAN :
          LET r == send(published, Key, value, partition, wait, ok)
          IN /\ published' = r.published
             /\ last' = [Called("send", r) EXCEPT !.value = value,
                            !.partition = partition, !.wait = wait]
    /\ UNCHANGED <<actorVars, codecVars, lifeVars, uuids>>

Cast ==
    /\ CanCall
    /\ \E value \in Values, partition \in Partitions, ok \in BOOLEAN :
          LET r == cast(published, Key, value, partition, ok)
          IN /\ published' = r.published
             /\ last' = [Called("cast", r) EXCEPT !.value = value,
                            !.partition = partition]
    /\ UNCHANGED <<actorVars, codecVars, lifeVars, uuids>>

\* uuid4 is called only when the id argument is not used.
Ask ==
    /\ CanCall
    /\ \E value \in Values, reply_to \in ReplyTos,
          correlation_id \in CorrelationIds, ok \in BOOLEAN :
          LET r == ask(published, Key, value, None, reply_to,
                       correlation_id, uuids, ok)
          IN /\ published' = r.published
             /\ uuids' = IF ask_correlation_id(correlation_id, uuids)
                              = correlation_id
                         THEN uuids ELSE uuids + 1
             /\ last' = [Called("ask", r) EXCEPT !.value = value,
                            !.reply_to = reply_to,
                            !.correlation_id = correlation_id]
    /\ UNCHANGED <<actorVars, codecVars, lifeVars>>

Reply ==
    /\ CanCall
    /\ \E value \in Values, req \in Requests, ok \in BOOLEAN :
          LET r == reply(published, Key, value, req, ok)
          IN /\ published' = r.published
             /\ last' = [Called("reply", r) EXCEPT !.value = value,
                            !.req = req]
    /\ UNCHANGED <<actorVars, codecVars, lifeVars, uuids>>

NextRpc ==
    \/ Send
    \/ Cast
    \/ Ask
    \/ Reply

SpecRpc == Init /\ [][NextRpc]_vars

\* ------------------------------------------------- dumps and loads
\* dumps(codec, obj) is called.
Dumps ==
    /\ \E codec \in CodecArgs, obj \in Objects :
          payload' = [NoPayload EXCEPT !.op = "dumps", !.codec = codec,
                         !.obj = obj, !.encoded = dumps(codec, obj)]
    /\ UNCHANGED <<actorVars, lifeVars, rpcVars>>

\* loads(codec, s) is called with what the latest dumps returned.
Loads ==
    /\ payload.op = "dumps"
    /\ \E codec \in CodecArgs :
          payload' = [payload EXCEPT !.op = "loads", !.decoder = codec,
                         !.decoded = loads(codec, payload.encoded)]
    /\ UNCHANGED <<actorVars, lifeVars, rpcVars>>

NextCodec ==
    \/ Dumps
    \/ Loads

SpecCodec == Init /\ [][NextCodec]_vars

\* ---------------------------------------------------------- properties
InstanceIds == 1 .. Len(instances)

\* C1: when on_start has completed on a freshly constructed service, the
\* service holds exactly `concurrency` instances, each with a task handle
\* of its own; while that first on_start runs it never holds more.
C1_ExactlyNInstances ==
    /\ (starts = 1 /\ service.state = "starting")
          => Len(instances) <= concurrency
    /\ (starts = 1 /\ service.state \in {"running", "stopping", "stopped"})
          => /\ Len(instances) = concurrency
             /\ \A i \in InstanceIds : instances[i].actor_task \in TaskIds
             /\ \A i, j \in InstanceIds :
                   i # j => instances[i].actor_task # instances[j].actor_task

C1_Witness ==
    /\ starts = 1
    /\ service.state = "running"
    /\ concurrency = MaxConcurrency
    /\ Len(instances) = MaxConcurrency

\* C2: the Source of the Actor is created at most once, and every instance
\* the Actor has made, and every task that pulls, holds that one Source,
\* whatever was invoked, started, stopped, failed or cancelled before.
C2_SourceCreatedOnce ==
    /\ Len(cursor) <= 1
    /\ (cache = None) <=> (cursor = <<>>)
    /\ \A i \in InstanceIds : instances[i].stream.source = cache
    /\ \A i \in 1 .. Len(invoked) : invoked[i].stream.source = cache
    /\ \A t \in TaskIds : tasks[t].stream.source = cache

C2_Witness ==
    /\ starts = 2
    /\ service.state = "running"
    /\ Len(invoked) = 1
    /\ Len(instances) = 2 * concurrency
    /\ \E t \in TaskIds : tasks[t].pc = "failed"
    /\ \E t \in TaskIds : tasks[t].pc = "cancelled"
    /\ \E t \in TaskIds : Len(tasks[t].pulled) > 0

\* No task has failed and none was cancelled.
Quiet ==
    \A t \in TaskIds :
        tasks[t].pc \in {"pull", "sink", "done"} /\ ~tasks[t].must_cancel

\* How many messages the shared source has handed out.
Delivered == IF cache = None THEN 0 ELSE cursor[cache]

\* The pulls of message m, and the calls of sink s with value v, over all
\* replicas.
Pulls(m) ==
    UNION {{<<t, k>> : k \in {j \in 1 .. Len(tasks[t].pulled) :
                                  tasks[t].pulled[j][1] = m}} : t \in TaskIds}

SinkCalls(s, v) ==
    UNION {{<<t, k>> : k \in {j \in 1 .. Len(tasks[t].calls) :
                                  tasks[t].calls[j] = <<s, v>>}} : t \in TaskIds}

\* Replica t is through with the k-th value it pulled.
Through(t, k) ==
    k < Len(tasks[t].pulled) \/ tasks[t].pc \in {"pull", "done"}

\* C3: with no failure and no cancellation, every message the shared
\* Source has handed out went to exactly one replica; no sink is called
\* twice with one value over all replicas; every sink that was registered
\* when a value was pulled has been called exactly once with it when the
\* replica is through with the value; and once every replica has returned,
\* sinks that were all registered before the first pull have been called
\* NMsgs times each.
C3_EachMessageToOneReplica ==
    Quiet =>
        /\ \A m \in 1 .. Delivered : Cardinality(Pulls(m)) = 1
        /\ \A m \in Msgs : m > Delivered => Pulls(m) = {}
        /\ \A s \in 1 .. Len(sinks), m \in Msgs :
              Cardinality(SinkCalls(s, m)) <= 1
        /\ \A t \in TaskIds : \A k \in 1 .. Len(tasks[t].pulled) :
              Through(t, k) =>
                 \A s \in 1 .. tasks[t].pulled[k][2] :
                    Cardinality(SinkCalls(s, tasks[t].pulled[k][1])) = 1
        /\ ( /\ tasks # <<>>
             /\ fun = "AsyncIterable"
             /\ \A t \in TaskIds : tasks[t].pc = "done"
             /\ \A t \in TaskIds : \A k \in 1 .. Len(tasks[t].pulled) :
                   tasks[t].pulled[k][2] = Len(sinks) )
           => \A s \in 1 .. Len(sinks) :
                 Cardinality(UNION {SinkCalls(s, m) : m \in Msgs}) = NMsgs

C3_Witness ==
    /\ Quiet
    /\ Len(tasks) = 2
    /\ \A t \in TaskIds :
          /\ tasks[t].pc = "done"
          /\ Len(tasks[t].pulled) = 1
          /\ tasks[t].pulled[1][2] = Len(sinks)
          /\ Len(tasks[t].calls) = Len(sinks)
    /\ Len(sinks) >= 1

Range(seq) == {seq[k] : k \in 1 .. Len(seq)}

\* C4: within one replica the sink calls come in blocks, one block per
\* pulled value and in pull order; a block calls the sinks in registration
\* order starting with the first; no sink is called twice with one value;
\* and when the next value is pulled (or the loop has returned) every sink
\* that was registered when the value was pulled has been called with it.
C4_SinksInOrderOncePerValue ==
    \A t \in TaskIds :
        LET c == tasks[t].calls
            p == tasks[t].pulled
            first == SelectSeq(c, LAMBDA e : e[1] = 1)
            sunk == SelectSeq(p, LAMBDA e : e[2] >= 1)
        IN /\ \A k \in 1 .. Len(c) :
                 \/ c[k][1] = 1
                 \/ k > 1 /\ c[k - 1][2] = c[k][2]
                          /\ c[k][1] = c[k - 1][1] + 1
           /\ \A j, k \in 1 .. Len(c) : j # k => c[j] # c[k]
           /\ [k \in 1 .. Len(first) |-> first[k][2]]
                 = [k \in 1 .. Len(sunk) |-> sunk[k][1]]
           /\ \A k \in 1 .. Len(p) :
                 Through(t, k) =>
                    \A s \in 1 .. p[k][2] : <<s, p[k][1]>> \in Range(c)
           /\ tasks[t].pc = "sink" =>
                 /\ c[Len(c)] = <<tasks[t].sink, tasks[t].value>>
                 /\ p[Len(p)][1] = tasks[t].value

C4_Witness ==
    \E t \in TaskIds :
        /\ tasks[t].pc = "done"
        /\ Len(tasks[t].pulled) = 2
        /\ tasks[t].calls = <<<<1, 1>>, <<2, 1>>, <<1, 2>>, <<2, 2>>>>

TaskOf(i) == tasks[instances[i].actor_task]

\* C5: a task that was cancelled while it had not ended can only end
\* cancelled, with CancelledError as its outcome; the error hook is never
\* called with the cancellation, and not at all when the task body had not
\* failed before; an instance is Stopped only when its task has ended, and
\* that task is then cancelled if the cancellation found it running.
C5_CancelEndsCancelledNoHook ==
    /\ \A t \in TaskIds :
          tasks[t].must_cancel =>
             /\ tasks[t].pc \in Pending \cup {"cancelled"}
             /\ tasks[t].pc = "cancelled" => tasks[t].result = CancelledError
             /\ \A k \in 1 .. Len(tasks[t].hooks) :
                   /\ tasks[t].hooks[k].exc # CancelledError
                   /\ tasks[t].hooks[k].exc = tasks[t].exc
             /\ tasks[t].exc = NoExc => tasks[t].hooks = <<>>
    /\ \A i \in InstanceIds :
          instances[i].state = "stopped" =>
             /\ IsDone(TaskOf(i))
             /\ TaskOf(i).must_cancel => TaskOf(i).pc = "cancelled"

C5_Witness ==
    \E i, j \in InstanceIds :
        /\ instances[i].state = "stopped"
        /\ instances[j].state = "stopped"
        /\ TaskOf(i).pc = "cancelled" /\ TaskOf(i).sink > 0
        /\ TaskOf(j).pc = "cancelled" /\ TaskOf(j).sink = 0
        /\ on_error

HookCall(exc) == [actor |-> ActorId, exc |-> exc]

\* C6 as stated: a failure of the task body is reported to the hook
\* exactly once, with the Actor and the error, when a hook is configured
\* and never otherwise, and the task ends failed in both cases.
C6_Original ==
    \A t \in TaskIds :
        /\ tasks[t].hooks = IF tasks[t].exc # NoExc /\ on_error
                            THEN <<HookCall(tasks[t].exc)>> ELSE <<>>
        /\ (tasks[t].exc # NoExc /\ IsDone(tasks[t]))
              => tasks[t].pc = "failed"

\* C6, amended: as C6, except that a task that is cancelled while the
\* hook is suspended ends cancelled.
C6_HookOncePerFailure ==
    \A t \in TaskIds :
        /\ tasks[t].hooks = IF tasks[t].exc # NoExc /\ on_error
                            THEN <<HookCall(tasks[t].exc)>> ELSE <<>>
        /\ (tasks[t].exc # NoExc /\ IsDone(tasks[t]))
              => \/ tasks[t].pc = "failed"
                 \/ /\ tasks[t].pc = "cancelled"
                    /\ tasks[t].hooked = "entered"
                    /\ tasks[t].must_cancel
        /\ (tasks[t].exc # NoExc /\ ~on_error) => tasks[t].pc = "failed"

C6_Witness ==
    /\ on_error
    /\ \E t, u \in TaskIds :
          /\ tasks[t].pc = "failed"
          /\ tasks[t].exc.type = "HandlerError"
          /\ tasks[t].hooks = <<HookCall(tasks[t].exc)>>
          /\ tasks[u].pc = "done"
          /\ tasks[u].hooks = <<>>

\* C7 as stated: with a hook configured, a task whose body raised E ends
\* failed with E itself, after the hook has run to its end, whatever the
\* hook did.
C7_Original ==
    \A t \in TaskIds :
        (tasks[t].exc # NoExc /\ on_error /\ IsDone(tasks[t])) =>
            /\ tasks[t].hooked \in {"returned", "raised"}
            /\ tasks[t].pc = "failed"
            /\ tasks[t].result = tasks[t].exc

\* C7, amended: the hook is entered before the task leaves the running
\* state; the task ends failed with E when the hook returns, failed with
\* the hook's own error when the hook raises, and cancelled when it is
\* cancelled while the hook is suspended.
C7_ReraiseAfterHook ==
    \A t \in TaskIds :
        (tasks[t].exc # NoExc /\ on_error) =>
            /\ tasks[t].hooked # "no"
            /\ tasks[t].pc = "hook" <=> (tasks[t].hooked = "entered"
                                          /\ ~IsDone(tasks[t]))
            /\ IsDone(tasks[t]) =>
                  \/ /\ tasks[t].hooked = "returned"
                     /\ tasks[t].pc = "failed"
                     /\ tasks[t].result = tasks[t].exc
                  \/ /\ tasks[t].hooked = "raised"
                     /\ tasks[t].pc = "failed"
                     /\ tasks[t].result = HookError
                  \/ /\ tasks[t].hooked = "entered"
                     /\ tasks[t].must_cancel
                     /\ tasks[t].pc = "cancelled"
                     /\ tasks[t].result = CancelledError

C7_Witness ==
    \E t \in TaskIds :
        /\ tasks[t].pc = "failed"
        /\ tasks[t].hooked = "returned"
        /\ tasks[t].exc.type = "SinkError"
        /\ tasks[t].result = tasks[t].exc

\* What C10 says of a replica in which sink i failed for value v, up to
\* the end of its task: no later sink was called with v, v is the last
\* value the replica pulled, and a configured hook was called with the
\* error.
SinkFailureAborts(t) ==
    LET e == tasks[t].exc
    IN /\ \A j \in 1 .. Len(sinks) :
             j > e.sink => <<j, e.value>> \notin Range(tasks[t].calls)
       /\ tasks[t].calls[Len(tasks[t].calls)] = <<e.sink, e.value>>
       /\ tasks[t].pulled[Len(tasks[t].pulled)][1] = e.value
       /\ on_error => tasks[t].hooks = <<HookCall(e)>>

\* C10 as stated: after a sink failure no later sink is called for the
\* value, nothing more is pulled, the hook gets the error and the task
\* ends failed.
C10_Original ==
    \A t \in TaskIds :
        tasks[t].exc.type = "SinkError" =>
            /\ SinkFailureAborts(t)
            /\ IsDone(tasks[t]) => tasks[t].pc = "failed"

\* C10, amended: the same, except that the task ends cancelled when it is
\* cancelled while the hook is suspended.
C10_FailingSinkAborts ==
    \A t \in TaskIds :
        tasks[t].exc.type = "SinkError" =>
            /\ SinkFailureAborts(t)
            /\ ~IsDone(tasks[t]) => tasks[t].pc = "hook"
            /\ IsDone(tasks[t]) =>
                  \/ tasks[t].pc = "failed"
                  \/ /\ tasks[t].pc = "cancelled"
                     /\ tasks[t].hooked = "entered"
                     /\ tasks[t].must_cancel

C10_Witness ==
    \E t \in TaskIds :
        /\ tasks[t].exc = SinkError(1, 1)
        /\ tasks[t].pulled = <<<<1, 2>>>>
        /\ tasks[t].pc = "failed"
        /\ on_error
        /\ Len(tasks) = 1
        /\ Delivered = 1

LastMessage == published[Len(published)]

\* What C8 says of an ask that returned, whatever the id: one more message
\* on the topic of the actor, a request with the value, the reply_to and
\* the request marker, and a promise for this actor and that request.
AskPublishedRequest ==
    /\ Len(published) = last.before + 1
    /\ LastMessage.dest = "topic"
    /\ LastMessage.value.type = "ReqRepRequest"
    /\ LastMessage.value.value = last.value
    /\ LastMessage.value.reply_to = last.reply_to
    /\ LastMessage.value.isareq
    /\ last.result = ReplyPromise(ActorId, LastMessage.value)

\* The id of the last request is a uuid no earlier request carries.
FreshId ==
    /\ LastMessage.value.correlation_id.kind = "uuid"
    /\ \A k \in 1 .. Len(published) - 1 :
          published[k].value.type = "ReqRepRequest" =>
             published[k].value.correlation_id
                # LastMessage.value.correlation_id

\* C8 as stated: the id of the request is fresh when no id is passed and
\* is the id that was passed otherwise.
C8_Original ==
    (last.op = "ask" /\ last.raised = "") =>
        /\ AskPublishedRequest
        /\ last.correlation_id = NoneId => FreshId
        /\ last.correlation_id # NoneId =>
              LastMessage.value.correlation_id = last.correlation_id

\* C8, amended: the id of the request is the id that was passed when that
\* is a non-empty string, and fresh when none or the empty string was
\* passed.
C8_AskPublishesRequest ==
    (last.op = "ask" /\ last.raised = "") =>
        /\ AskPublishedRequest
        /\ Truthy(LastMessage.value.correlation_id)
        /\ ~Truthy(last.correlation_id) => FreshId
        /\ Truthy(last.correlation_id) =>
              LastMessage.value.correlation_id = last.correlation_id

C8_Witness ==
    /\ last.op = "ask"
    /\ last.raised = ""
    /\ last.correlation_id = Str("C")
    /\ Len(published) = 2
    /\ published[1].value.type = "ReqRepRequest"
    /\ published[1].value.correlation_id.kind = "uuid"
    /\ published[2].value.correlation_id = Str("C")

\* C9 as stated: a reply, for a record and for a plain value alike, sends
\* one response with the id of the request and the value to the reply_to
\* of the request (the transport permitting).
C9_ReplySendsResponse ==
    (last.op = "reply" /\ last.raised # "TransportError") =>
        /\ last.raised = ""
        /\ Len(published) = last.before + 1
        /\ LastMessage.dest = last.req.reply_to
        /\ LastMessage.value.type = "ReqRepResponse"
        /\ LastMessage.value.correlation_id = last.req.correlation_id
        /\ LastMessage.value.value = last.value

\* A step in which the task t fails: the exception leaves _execute_task, or
\* is caught there and handed to the error hook.
Fails(t) ==
    /\ tasks[t].exc = NoExc
    /\ tasks'[t].exc # NoExc
    /\ tasks'[t].exc # CancelledError

SomeFailed == \E t \in TaskIds : tasks[t].exc \notin {NoExc, CancelledError}

\* C11: when the task of one replica fails, the step changes that task
\* only: every sibling task is as it was, the service holds the same
\* instances and no task is created in place of the failed one; and a
\* sibling that waits for a message of a stream that has more is still
\* able to pull it.
C11_FailureIsolated ==
    /\ [](\A u \in TaskIds :
            (SomeFailed /\ tasks[u].pc = "pull" /\ ~tasks[u].must_cancel
                /\ ~Source_exhausted(cursor, tasks[u].stream.source))
            => ENABLED Pull(u))
    /\ [][\A t \in TaskIds :
            Fails(t) => /\ instances' = instances
                        /\ Len(tasks') = Len(tasks)
                        /\ service' = service
                        /\ \A u \in TaskIds \ {t} : tasks'[u] = tasks[u]]_vars

\* One replica failed on the first message and its sibling pulled the
\* second one after that.
C11_Witness ==
    \E t, u \in TaskIds :
        /\ t # u
        /\ ~on_error
        /\ tasks[t].pc = "failed"
        /\ tasks[t].exc = HandlerError(1)
        /\ Len(tasks[u].pulled) = 1
        /\ tasks[u].pulled[1][1] = 2
        /\ Len(instances) = 2

\* A step in which cancellation is issued to the task t.
CancelIssued(t) == ~tasks[t].must_cancel /\ tasks'[t].must_cancel

\* C12: the step that cancels one instance changes the task of that
\* instance only, and of it only the pending cancellation: the task of
\* every sibling, the shared Source (the cached slot and how far it was
\* read) and the sink list are as they were.
C12_CancelTouchesOneTask ==
    [][\A t \in TaskIds :
         CancelIssued(t) =>
            /\ tasks' = [tasks EXCEPT ![t].must_cancel = TRUE]
            /\ \A u \in TaskIds \ {t} : tasks'[u] = tasks[u]
            /\ cache' = cache
            /\ cursor' = cursor
            /\ sinks' = sinks]_vars

\* The first instance was cancelled while its sibling is in the middle of
\* its work, untouched.
C12_Witness ==
    \E t, u \in TaskIds :
        /\ t # u
        /\ service.state = "stopping"
        /\ tasks[t].must_cancel
        /\ ~tasks[u].must_cancel
        /\ tasks[u].pc = "sink"
        /\ Len(sinks) = 2

\* The instances on_stop has called stop() on so far.
StopCalled(i) ==
    \/ service.state = "stopped"
    \/ /\ service.state = "stopping"
       /\ \/ i < service.index
          \/ i = service.index /\ service.phase = "wait"

\* C13: on_stop issues cancellation to the task of every instance the
\* service holds, whatever state the task is in: once stop() was called on
\* an instance its task has ended or has a cancellation pending, and when
\* on_stop has returned no held instance has a task that still runs.  A
\* task that had not ended by itself ends cancelled.
C13_StopCancelsEveryInstance ==
    /\ \A i \in InstanceIds :
          StopCalled(i) =>
             /\ instances[i].state \in {"stopping", "stopped"}
             /\ IsDone(TaskOf(i)) \/ TaskOf(i).must_cancel
             /\ (IsDone(TaskOf(i)) /\ TaskOf(i).must_cancel)
                    => TaskOf(i).pc = "cancelled"
    /\ service.state = "stopped"
          => \A i \in InstanceIds : /\ IsDone(TaskOf(i))
                                     /\ instances[i].state = "stopped"

\* on_stop has returned while the stream had more messages: one task had
\* failed before the stop, the other was running and ended cancelled.
C13_Witness ==
    /\ service.state = "stopped"
    /\ cache # None
    /\ ~Source_exhausted(cursor, cache)
    /\ \E i, j \in InstanceIds :
          /\ TaskOf(i).pc = "failed"
          /\ ~TaskOf(i).must_cancel
          /\ TaskOf(j).pc = "cancelled"

\* C14: send, cast and ask call the publish primitive exactly once per
\* call and never again: a call that returns has added one message, a call
\* whose publish failed raises that same failure, has added nothing and
\* (for ask) returns no Reply Promise; cast(key, value, partition)
\* publishes what send(key, value, partition) with wait = true publishes.
C14_PublishOncePerCall ==
    last.op \in {"send", "cast", "ask"} =>
        /\ last.attempts = 1
        /\ last.raised \in {"", "TransportError"}
        /\ last.raised = ""
              => /\ Len(published) = last.before + 1
                 /\ last.op = "ask" => last.result # NoneId
                 /\ last.op = "cast"
                       => /\ LastMessage = Message("topic", Key, last.value,
                                                    last.partition, TRUE)
                          /\ <<LastMessage>> =
                                send(<<>>, Key, last.value, last.partition,
                                     TRUE, TRUE).published
        /\ last.raised = "TransportError"
              => /\ Len(published) = last.before
                 /\ last.result = NoneId

\* An ask whose publish failed, after a call that went through.
C14_Witness ==
    /\ last.op = "ask"
    /\ last.raised = "TransportError"
    /\ last.result = NoneId
    /\ Len(published) = 1

\* C16: every instance the service holds has its task bound and its index
\* set from the moment it is held, so before it is started; the assertion
\* of on_start never fails, and an instance that was started has
\* registered that task as a future of its own.
C16_TaskBoundBeforeStart ==
    \A i \in InstanceIds :
        /\ instances[i].actor_task \in TaskIds
        /\ instances[i].index \in 0 .. concurrency - 1
        /\ instances[i].state # "crashed"
        /\ instances[i].state \in {"running", "stopping", "stopped"}
              => instances[i].futures = {instances[i].actor_task}

\* The first instance was started, the second is held, bound, and about
\* to be started.
C16_Witness ==
    /\ service.state = "starting"
    /\ service.phase = "start"
    /\ Len(instances) = 2
    /\ instances[1].state = "running"
    /\ instances[1].futures = {1}
    /\ instances[2].state = "init"
    /\ instances[2].actor_task = 2

\* C17: the instances are discarded when the service stops: a stopped
\* service holds no instance and, over any sequence of start, stop and
\* restart, the service never holds more than `concurrency` instances.
C17_InstancesDiscardedOnStop ==
    /\ service.state = "stopped" => instances = <<>>
    /\ Len(instances) <= concurrency

\* C18: the replicas are created and started one after another in index
\* order: the k-th instance held has index k (counted from 0), so the
\* indices are 0 .. concurrency-1, each used once; and when the task of a
\* replica is created every instance held before it has been started.
C18_SequentialIndexOrder ==
    /\ \A i \in InstanceIds : instances[i].index = i - 1
    /\ \A i, j \in InstanceIds :
          i # j => instances[i].index # instances[j].index
    /\ \A i \in InstanceIds :
          i < Len(instances) => instances[i].state # "init"

\* A step of the replica t that pulls a value or starts a sink invocation.
Advances(t) ==
    \/ tasks'[t].pulled # tasks[t].pulled
    \/ tasks'[t].calls # tasks[t].calls
    \/ tasks'[t].hooks # tasks[t].hooks

\* C19: once cancellation has been issued to an instance of the sequence
\* variant, its replica pulls no further value and starts no further sink
\* invocation: the only step its task takes is the one that ends it, and
\* it ends cancelled, not failed.
C19_NoWorkAfterCancel ==
    /\ [](\A t \in TaskIds :
            (tasks[t].variant = "AsyncIterableActor" /\ tasks[t].must_cancel)
            => tasks[t].pc \in Pending \cup {"cancelled"})
    /\ [][\A t \in TaskIds :
            (tasks[t].variant = "AsyncIterableActor" /\ tasks[t].must_cancel)
            => /\ ~Advances(t)
               /\ tasks'[t] # tasks[t] => tasks'[t].pc = "cancelled"]_vars

\* A replica was cancelled between two sinks of a value, with another
\* message still in the stream: the second sink was never called.
C19_Witness ==
    \E t \in TaskIds :
        /\ tasks[t].variant = "AsyncIterableActor"
        /\ tasks[t].must_cancel
        /\ tasks[t].pc = "cancelled"
        /\ Len(sinks) = 2
        /\ Len(tasks[t].calls) = 1
        /\ ~Source_exhausted(cursor, tasks[t].stream.source)

\* The encoding a node writes.
LayerOf(n) ==
    CASE n.type = "json" -> "json"
      [] n.type = "raw_pickle" -> "pickle"
      [] n.type = "binary" -> "base64"

\* Along the chain ns, starting with d, the decoder of each node inverts
\* its encoder on the value that node is given.
RECURSIVE EachNodeInverts(_, _)
EachNodeInverts(ns, d) ==
    \/ ns = <<>>
    \/ /\ node_loads(Head(ns), node_dumps(Head(ns), d)) = d
       /\ EachNodeInverts(Tail(ns), node_dumps(Head(ns), d))

\* C15: for every codec chain and every value x it can encode, with each
\* node's decoder inverting its encoder, loads(dumps(x)) = x: dumps has
\* applied the encoders of the nodes in chain order (the first node's is
\* innermost) and loads, undoing them last to first, returns x.
C15_RoundTrip ==
    /\ payload.op \in {"dumps", "loads"} /\ payload.codec = NoCodec
          => payload.encoded = payload.obj
    /\ (/\ payload.op \in {"dumps", "loads"}
        /\ payload.codec # NoCodec
        /\ EachNodeInverts(nodes(get_codec(payload.codec)), payload.obj))
          => LET ns == nodes(get_codec(payload.codec))
             IN /\ payload.encoded # Error
                /\ payload.encoded.layers
                      = [k \in 1 .. Len(ns) |-> LayerOf(ns[k])]
                /\ (payload.op = "loads" /\ payload.decoder = payload.codec)
                      => payload.decoded = payload.obj

\* A dict went through 'json|binary' and came back.
C15_Witness ==
    /\ payload.op = "loads"
    /\ payload.codec = Name(<<"json", "binary">>)
    /\ payload.decoder = payload.codec
    /\ payload.obj = Data("dict", 1)
    /\ payload.encoded.layers = <<"json", "base64">>
    /\ payload.decoded = payload.obj

\* dumps('b', dumps('a', x)) for the names of 'a|b|...', one after another.
RECURSIVE StepDumps(_, _)
StepDumps(parts, obj) ==
    IF parts = <<>> THEN obj
    ELSE StepDumps(Tail(parts), dumps(Name(<<Head(parts)>>), obj))

\* loads('a', loads('b', s)): the same names, last to first.
RECURSIVE StepLoads(_, _)
StepLoads(parts, s) ==
    IF parts = <<>> THEN s
    ELSE StepLoads(SubSeq(parts, 1, Len(parts) - 1),
                   loads(Name(<<parts[Len(parts)]>>), s))

\* C20: for every chained name 'a|b|...', also when a name of it is
\* registered as a chain (such as 'pickle'), dumps('a|b', x) equals
\* dumps('b', dumps('a', x)), and loads of the chained name equals the
\* loads of its names applied last to first.
C20_ChainedNameComposes ==
    (/\ payload.op \in {"dumps", "loads"}
     /\ IsName(payload.codec)
     /\ Len(payload.codec.name) >= 2)
       => /\ payload.encoded = StepDumps(payload.codec.name, payload.obj)
          /\ (payload.op = "loads" /\ payload.decoder = payload.codec)
                => payload.decoded
                      = StepLoads(payload.codec.name, payload.encoded)


====
